---- MODULE Spec2Model ----
(***************************************************************************)
(* Model of DeliveryDatabase (src/main.py): the orders table, the          *)
(* denormalised activity table, the AUTOINCREMENT counters of SQLite and   *)
(* the activity log, with one action per public method.                    *)
(*                                                                         *)
(* A date string is a record [ymd, hm]: ymd is the day number of the       *)
(* fixed-width "YYYY-MM-DD" text and hm is the text after a space ("" when *)
(* the string is a plain ISO date).  Text comparison of two such strings   *)
(* is DateLeq.  Prices are exact numbers (REAL rounding is not modelled).  *)
(***************************************************************************)
EXTENDS Integers, Sequences, FiniteSets, TLC

MaxOps == 3
MaxWindow == 1

VARIABLES orders, activity, sqlite_sequence, log, today, ret, conn

vars == <<orders, activity, sqlite_sequence, log, today, ret, conn>>

----------------------------------------------------------------------------
(* Input domains *)

Customers == {"Ivan"}
Products == {"Milk"}
Quantities == {-1, 2}
Prices == {15}
Days == {1, 2, 3}
IsoDates == {[ymd |-> d, hm |-> ""] : d \in Days}
(* a delivery date may also carry a time of day, "YYYY-MM-DD 10:00" *)
TimedDates == {[ymd |-> 2, hm |-> "10:00"]}
DateStrings == IsoDates \cup TimedDates
OrderIds == 1..MaxOps
WindowDays == 0..MaxWindow

(* the status text written by add_order, 'v obrabotke' ("processing") *)
STATUS_PROCESSING == "v obrabotke"

----------------------------------------------------------------------------
(* Helpers: text comparison, sums, sorted enumerations *)

DateLeq(a, b) == a.ymd < b.ymd \/ (a.ymd = b.ymd /\ (a.hm = "" \/ a.hm = b.hm))

(* SUM(price), the unit prices without the quantities *)
RECURSIVE SumPrices(_)
SumPrices(S) ==
    IF S = {} THEN 0
    ELSE LET o == CHOOSE x \in S : TRUE IN o.price + SumPrices(S \ {o})

MaxOf(S) == CHOOSE m \in S : \A x \in S : x <= m

total_amount(o) == o.price * o.quantity

(* SUM(price * quantity) over a non-empty set of order rows *)
RECURSIVE SumAmounts(_)
SumAmounts(S) ==
    IF S = {} THEN 0
    ELSE LET o == CHOOSE x \in S : TRUE
         IN total_amount(o) + SumAmounts(S \ {o})

(* the row orders an ORDER BY on a date column may produce: every row once,
   keys ascending; the order of rows with equal keys is unspecified.
   key is "delivery_date" or "date". *)
KeyOf(r, key) == IF key = "delivery_date" THEN r.delivery_date ELSE r.date

RECURSIVE OrderByAsc(_, _)
OrderByAsc(S, key) ==
    IF S = {} THEN {<<>>}
    ELSE UNION {{<<x>> \o s : s \in OrderByAsc(S \ {x}, key)} :
                  x \in {y \in S :
                            \A z \in S : DateLeq(KeyOf(y, key), KeyOf(z, key))}}

OrderByDescAscending(S, key) == OrderByAsc(S, key)

RECURSIVE OrderByDesc(_, _)
OrderByDesc(S, key) ==
    IF S = {} THEN {<<>>}
    ELSE UNION {{<<x>> \o s : s \in OrderByDesc(S \ {x}, key)} :
                  x \in {y \in S :
                            \A z \in S : DateLeq(KeyOf(z, key), KeyOf(y, key))}}

----------------------------------------------------------------------------
(* SQLite: INTEGER PRIMARY KEY AUTOINCREMENT *)

NextRowidNoAutoincrement(rows, last) ==
    IF rows = {} THEN 1 ELSE MaxOf({r.id : r \in rows}) + 1

NextRowid(rows, last) ==
    IF rows = {} THEN last + 1
    ELSE (IF MaxOf({r.id : r \in rows}) > last
          THEN MaxOf({r.id : r \in rows}) ELSE last) + 1

----------------------------------------------------------------------------
Callers == {"A", "B"}

(* a caller that is in no method; order and existing_record are the local
   variables of delete_order and add_order, working is the uncommitted
   content of the caller's connection ({} when it has written nothing) *)
NoCall ==
    [pc |-> "idle", op |-> "", args |-> <<>>, order |-> {},
     existing_record |-> FALSE, working |-> {}]

Init ==
    /\ conn = [c \in Callers |-> NoCall]
    /\ orders = {}
    /\ activity = {}
    /\ sqlite_sequence = [orders |-> 0, activity |-> 0]
    /\ log = <<>>
    /\ today \in {d \in Days : d - 1 \in Days /\ d + 1 \in Days}
    /\ ret = [op |-> "__init__"]

----------------------------------------------------------------------------
(* add_order *)

OrderRowSwapped(id, customer, product, quantity, price, delivery_date) ==
    [id |-> id, customer_name |-> product, product |-> customer,
     quantity |-> quantity, price |-> price,
     delivery_date |-> delivery_date, status |-> STATUS_PROCESSING]

OrderRow(id, customer, product, quantity, price, delivery_date) ==
    [id |-> id, customer_name |-> customer, product |-> product,
     quantity |-> quantity, price |-> price,
     delivery_date |-> delivery_date, status |-> STATUS_PROCESSING]

(* SELECT id FROM activity WHERE date = ? *)
SelectActivity(act, d) == {a \in act : a.date = d}

UpsertActivityOverwrite(act, last, d, amount) ==
    IF SelectActivity(act, d) # {}
    THEN {IF a.date = d
          THEN [a EXCEPT !.orders_count = @ + 1, !.revenue = amount]
          ELSE a : a \in act}
    ELSE act \cup {[id |-> NextRowid(act, last), date |-> d,
                    orders_count |-> 1, revenue |-> amount]}

UpsertActivityUpdateOnly(act, last, d, amount) ==
    {IF a.date = d
     THEN [a EXCEPT !.orders_count = @ + 1, !.revenue = @ + amount]
     ELSE a : a \in act}

(* the UPDATE / INSERT on activity made by add_order *)
UpsertActivity(act, last, d, amount) ==
    IF SelectActivity(act, d) # {}
    THEN {IF a.date = d
          THEN [a EXCEPT !.orders_count = @ + 1, !.revenue = @ + amount]
          ELSE a : a \in act}
    ELSE act \cup {[id |-> NextRowid(act, last), date |-> d,
                    orders_count |-> 1, revenue |-> amount]}

add_order(customer, product, quantity, price, delivery_date) ==
    /\ Len(log) < MaxOps
    /\ LET order_id == NextRowid(orders, sqlite_sequence.orders)
           amount == price * quantity
           act == UpsertActivity(activity, sqlite_sequence.activity,
                                 delivery_date, amount)
       IN /\ orders' = orders \cup
                {OrderRow(order_id, customer, product, quantity, price,
                          delivery_date)}
          /\ activity' = act
          /\ sqlite_sequence' =
                [orders |-> order_id,
                 activity |-> IF act = {} THEN sqlite_sequence.activity
                              ELSE MaxOf({a.id : a \in act}
                                         \cup {sqlite_sequence.activity})]
          /\ log' = Append(log, [kind |-> "add", id |-> order_id])
          /\ ret' = [op |-> "add_order",
                     args |-> <<customer, product, quantity, price,
                                delivery_date>>,
                     value |-> order_id]
    /\ UNCHANGED <<today, conn>>

AddOrder(dates) ==
    \E c \in Customers, p \in Products, q \in Quantities, pr \in Prices,
       d \in dates : add_order(c, p, q, pr, d)

----------------------------------------------------------------------------
(* delete_order *)

SelectOrderUpTo(rows, order_id) == {o \in rows : o.id <= order_id}

(* SELECT price, quantity, delivery_date FROM orders WHERE id = ? *)
SelectOrder(rows, order_id) == {o \in rows : o.id = order_id}

(* order_date.split(' ')[0] when the text holds a space *)
order_date_only(order_date) ==
    IF order_date.hm # "" THEN [ymd |-> order_date.ymd, hm |-> ""]
    ELSE order_date

DecrementActivityKeepRevenue(act, order) ==
    IF SelectActivity(act, order_date_only(order.delivery_date)) # {}
    THEN {IF a.date = order_date_only(order.delivery_date)
          THEN [a EXCEPT !.orders_count = @ - 1]
          ELSE a : a \in act}
    ELSE act

DecrementActivityDropsEmpty(act, order) ==
    {a \in {IF b.date = order_date_only(order.delivery_date)
            THEN [b EXCEPT !.orders_count = @ - 1,
                           !.revenue = @ - order.price * order.quantity]
            ELSE b : b \in act} : a.orders_count # 0}

(* the UPDATE on activity made by delete_order for the order found *)
DecrementActivity(act, order) ==
    IF SelectActivity(act, order_date_only(order.delivery_date)) # {}
    THEN {IF a.date = order_date_only(order.delivery_date)
          THEN [a EXCEPT !.orders_count = @ - 1,
                         !.revenue = @ - order.price * order.quantity]
          ELSE a : a \in act}
    ELSE act

delete_order(order_id) ==
    /\ Len(log) < MaxOps
    /\ LET found == SelectOrder(orders, order_id)
       IN activity' = IF found # {}
                      THEN DecrementActivity(activity, CHOOSE o \in found : TRUE)
                      ELSE activity
    /\ orders' = {o \in orders : o.id # order_id}
    /\ log' = Append(log, [kind |-> "delete", id |-> order_id])
    /\ ret' = [op |-> "delete_order", id |-> order_id]
    /\ UNCHANGED <<sqlite_sequence, today, conn>>

DeleteOrder == \E id \in OrderIds : delete_order(id)

----------------------------------------------------------------------------
(* get_all_orders *)

get_all_orders ==
    /\ \E rows \in OrderByDesc(orders, "delivery_date") :
          ret' = [op |-> "get_all_orders", value |-> rows]
    /\ UNCHANGED <<orders, activity, sqlite_sequence, log, today, conn>>

----------------------------------------------------------------------------
(* get_revenue_stats *)

(* date('now', '-N days') *)
DateNowMinus(days) == [ymd |-> today - days, hm |-> ""]

ActivityStatsUnfiltered(days) ==
    OrderByAsc({[date |-> a.date, revenue |-> a.revenue] : a \in activity},
               "date")

(* SELECT date, revenue FROM activity WHERE date >= ... ORDER BY date ASC *)
ActivityStats(days) ==
    OrderByAsc({[date |-> a.date, revenue |-> a.revenue] :
                  a \in {b \in activity : DateLeq(DateNowMinus(days), b.date)}},
               "date")

OrderStatsPriceOnly(days) ==
    LET inwin == {o \in orders : DateLeq(DateNowMinus(days), o.delivery_date)}
    IN OrderByAsc({[date |-> d,
                    revenue |-> SumPrices({o \in inwin :
                                               o.delivery_date = d})] :
                     d \in {o.delivery_date : o \in inwin}},
                  "date")

(* SELECT delivery_date, SUM(price * quantity) FROM orders WHERE ...
   GROUP BY delivery_date ORDER BY delivery_date ASC *)
OrderStats(days) ==
    LET inwin == {o \in orders : DateLeq(DateNowMinus(days), o.delivery_date)}
    IN OrderByAsc({[date |-> d,
                    revenue |-> SumAmounts({o \in inwin :
                                                o.delivery_date = d})] :
                     d \in {o.delivery_date : o \in inwin}},
                  "date")

RevenueStats(days) ==
    IF ActivityStats(days) # {<<>>} THEN ActivityStats(days)
    ELSE OrderStats(days)

get_revenue_stats(days) ==
    /\ \E stats \in RevenueStats(days) :
          ret' = [op |-> "get_revenue_stats", days |-> days, value |-> stats]
    /\ UNCHANGED <<orders, activity, sqlite_sequence, log, today, conn>>

GetRevenueStats == \E days \in WindowDays : get_revenue_stats(days)

----------------------------------------------------------------------------
(* get_general_statistics *)

RECURSIVE GCD(_, _)
GCD(a, b) == IF b = 0 THEN a ELSE GCD(b, a % b)

Abs(x) == IF x < 0 THEN -x ELSE x

(* the quotient n / d as an exact fraction in lowest terms, d > 0 *)
Quotient(n, d) ==
    [num |-> n \div GCD(Abs(n), d), den |-> d \div GCD(Abs(n), d)]

Zero == Quotient(0, 1)

CountSumPriceOnly(rows) ==
    <<Cardinality(rows), IF rows = {} THEN <<>> ELSE <<SumPrices(rows)>>>>

(* COUNT and SUM(price * quantity) over orders; SUM of no rows is NULL,
   written <<>> *)
CountSum(rows) ==
    <<Cardinality(rows),
      IF rows = {} THEN <<>> ELSE <<SumAmounts(rows)>>>>

GeneralStatistics(rows) ==
    LET result == CountSum(rows)
        total_orders == IF result[1] # 0 THEN result[1] ELSE 0
        total_revenue == IF result[2] # <<>> /\ result[2][1] # 0
                         THEN result[2][1] ELSE 0
    IN [total_orders |-> total_orders,
        total_revenue |-> total_revenue,
        average_order_value |->
            IF total_orders > 0 THEN Quotient(total_revenue, total_orders)
            ELSE Zero]

get_general_statistics ==
    /\ ret' = [op |-> "get_general_statistics",
               value |-> GeneralStatistics(orders)]
    /\ UNCHANGED <<orders, activity, sqlite_sequence, log, today, conn>>

----------------------------------------------------------------------------
Next ==
    \/ AddOrder(DateStrings)
    \/ DeleteOrder
    \/ get_all_orders
    \/ GetRevenueStats
    \/ get_general_statistics

Spec == Init /\ [][Next]_vars

(* the same store when every delivery date given to add_order is a plain
   ISO YYYY-MM-DD string *)
NextIso ==
    \/ AddOrder(IsoDates)
    \/ DeleteOrder
    \/ get_all_orders
    \/ GetRevenueStats
    \/ get_general_statistics

SpecIso == Init /\ [][NextIso]_vars

----------------------------------------------------------------------------
(* Storage failures: one statement of a method raises sqlite3.Error.  The
   statements of a method run on one connection; what they wrote is visible
   to later connections only after conn.commit().  A result returned by an
   except branch carries the mark failed; log holds the entries written by
   add_order and delete_order. *)

Db == [orders |-> orders, activity |-> activity,
       sqlite_sequence |-> sqlite_sequence]

Raised(r) == "raised" \in DOMAIN r
Failed(r) == "failed" \in DOMAIN r
Returned(r) == "value" \in DOMAIN r

CloseWithoutCommitKeeps(committed, working) == working

(* finally: conn.close() on a connection that was not committed *)
CloseWithoutCommit(committed, working) == committed

(* the delivery dates used where failures are injected: the day that is
   entered both as a plain date and with a time of day *)
FailDates == {d \in DateStrings : \E t \in TimedDates : d.ymd = t.ymd}

AddOrderStatements ==
    {"connect", "insert_order", "select_activity", "write_activity", "commit"}

(* except sqlite3.Error as e: raise DatabaseError(...) *)
ExceptSqliteError(op, at) ==
    [op |-> op, failed |-> at, raised |-> "DatabaseError"]

(* add_order when the statement at raises sqlite3.Error *)
add_order_fails(customer, product, quantity, price, delivery_date, at) ==
    /\ LET order_id == NextRowid(orders, sqlite_sequence.orders)
           inserted ==
              [Db EXCEPT !.orders = @ \cup
                            {OrderRow(order_id, customer, product, quantity,
                                      price, delivery_date)},
                         !.sqlite_sequence.orders = order_id]
           act == UpsertActivity(activity, sqlite_sequence.activity,
                                 delivery_date, price * quantity)
           written ==
              [inserted EXCEPT !.activity = act,
                               !.sqlite_sequence.activity =
                                   MaxOf({a.id : a \in act} \cup {@})]
           working == IF at \in {"connect", "insert_order"} THEN Db
                      ELSE IF at \in {"select_activity", "write_activity"}
                           THEN inserted
                           ELSE written
           after == CloseWithoutCommit(Db, working)
       IN /\ orders' = after.orders
          /\ activity' = after.activity
          /\ sqlite_sequence' = after.sqlite_sequence
    /\ ret' = ExceptSqliteError("add_order", at)
    /\ UNCHANGED <<log, today, conn>>

AddOrderFails ==
    \E c \in Customers, p \in Products, q \in Quantities, pr \in Prices,
       d \in FailDates, at \in AddOrderStatements :
          add_order_fails(c, p, q, pr, d, at)

DeleteOrderStatements ==
    {"connect", "select_order", "select_activity", "update_activity",
     "delete", "commit"}

ExceptExceptionReraises(l) == [continue |-> FALSE, log |-> l]

(* except Exception as e: logging.warning(...) around the activity update:
   the failure is logged and delete_order goes on *)
ExceptException(l) ==
    [continue |-> TRUE,
     log |-> Append(l, [kind |-> "warning", op |-> "delete_order"])]

(* delete_order when the statement at raises sqlite3.Error; at is a
   statement this call executes *)
delete_order_fails(order_id, at) ==
    LET found == SelectOrder(orders, order_id)
        order == CHOOSE o \in found : TRUE
        has_record ==
            found # {} /\
            SelectActivity(activity, order_date_only(order.delivery_date)) # {}
        inner_failed == at \in {"select_activity", "update_activity"}
        decremented ==
            IF found # {} /\ ~inner_failed
            THEN DecrementActivity(activity, order) ELSE activity
        deleted == {o \in orders : o.id # order_id}
        handled == IF inner_failed THEN ExceptException(log)
                   ELSE [continue |-> TRUE, log |-> log]
    IN /\ Len(log) < MaxOps
       /\ at = "select_activity" => found # {}
       /\ at = "update_activity" => has_record
       /\ IF at \in {"connect", "select_order"} \/ ~handled.continue
          THEN /\ ret' = ExceptSqliteError("delete_order", at)
                      @@ [id |-> order_id]
               /\ log' = handled.log
               /\ UNCHANGED <<orders, activity>>
          ELSE IF at \in {"delete", "commit"}
          THEN LET working ==
                      [Db EXCEPT !.activity = decremented,
                                 !.orders = IF at = "commit" THEN deleted
                                            ELSE @]
                   after == CloseWithoutCommit(Db, working)
               IN /\ orders' = after.orders
                  /\ activity' = after.activity
                  /\ ret' = ExceptSqliteError("delete_order", at)
                      @@ [id |-> order_id]
                  /\ UNCHANGED log
          ELSE /\ orders' = deleted
               /\ activity' = decremented
               /\ log' = Append(handled.log,
                                [kind |-> "delete", id |-> order_id])
               /\ ret' = [op |-> "delete_order", id |-> order_id,
                          failed |-> at]
       /\ UNCHANGED <<sqlite_sequence, today, conn>>

DeleteOrderFails ==
    \E id \in OrderIds, at \in DeleteOrderStatements :
       delete_order_fails(id, at)

GetAllOrdersExceptQuiet ==
    [op |-> "get_all_orders", failed |-> TRUE, value |-> <<>>]

(* except sqlite3.Error as e: raise DatabaseError(...) in get_all_orders *)
GetAllOrdersExcept ==
    [op |-> "get_all_orders", failed |-> TRUE, raised |-> "DatabaseError"]

(* get_all_orders when connect or the SELECT raises sqlite3.Error *)
get_all_orders_fails(at) ==
    /\ ret' = GetAllOrdersExcept
    /\ UNCHANGED <<orders, activity, sqlite_sequence, log, today, conn>>

GetAllOrdersFails == \E at \in {"connect", "select"} : get_all_orders_fails(at)

RevenueStatsExceptRaises(days) ==
    [op |-> "get_revenue_stats", days |-> days, failed |-> TRUE,
     raised |-> "DatabaseError"]

(* except sqlite3.Error: logging.warning(...); return [] *)
RevenueStatsExcept(days) ==
    [op |-> "get_revenue_stats", days |-> days, failed |-> TRUE,
     value |-> <<>>]

(* get_revenue_stats when a statement it executes raises sqlite3.Error *)
get_revenue_stats_fails(days, at) ==
    /\ at = "select_orders" => ActivityStats(days) = {<<>>}
    /\ ret' = RevenueStatsExcept(days)
    /\ UNCHANGED <<orders, activity, sqlite_sequence, log, today, conn>>

GetRevenueStatsFails ==
    \E days \in WindowDays,
       at \in {"connect", "select_activity", "select_orders"} :
          get_revenue_stats_fails(days, at)

(* except sqlite3.Error: logging.warning(...); return the all-zero dict *)
GeneralStatisticsExcept ==
    [op |-> "get_general_statistics", failed |-> TRUE,
     value |-> [total_orders |-> 0, total_revenue |-> 0,
                average_order_value |-> Zero]]

(* get_general_statistics when connect or the SELECT raises sqlite3.Error *)
get_general_statistics_fails(at) ==
    /\ ret' = GeneralStatisticsExcept
    /\ UNCHANGED <<orders, activity, sqlite_sequence, log, today, conn>>

GetGeneralStatisticsFails ==
    \E at \in {"connect", "select"} : get_general_statistics_fails(at)

NextFail ==
    \/ AddOrder(FailDates)
    \/ DeleteOrder
    \/ get_all_orders
    \/ GetRevenueStats
    \/ get_general_statistics
    \/ AddOrderFails
    \/ DeleteOrderFails
    \/ GetAllOrdersFails
    \/ GetRevenueStatsFails
    \/ GetGeneralStatisticsFails

SpecFail == Init /\ [][NextFail]_vars

----------------------------------------------------------------------------
(* Two callers: the statements of add_order and delete_order, one step each.
   Each call works on its own connection.  A SELECT sees the committed
   tables; the first INSERT, UPDATE or DELETE of a call opens a transaction
   and takes the write lock of the database file, which it keeps until
   conn.commit(); a statement that needs the lock waits while the other
   caller holds it. *)

LockFree(c) == \A k \in Callers \ {c} : conn[k].working = {}

InFlight == Cardinality({c \in Callers : conn[c].pc # "idle"})

ConcDates == {d \in IsoDates : d.ymd = today}

call_add_order(c, customer, product, quantity, price, delivery_date) ==
    /\ conn[c].pc = "idle"
    /\ Len(log) + InFlight < MaxOps
    /\ conn' = [conn EXCEPT ![c] =
                  [NoCall EXCEPT !.pc = "insert_order", !.op = "add_order",
                                 !.args = <<customer, product, quantity,
                                            price, delivery_date>>]]
    /\ UNCHANGED <<orders, activity, sqlite_sequence, log, today, ret>>

(* INSERT INTO orders *)
add_insert_order(c) ==
    /\ conn[c].pc = "insert_order"
    /\ LockFree(c)
    /\ LET a == conn[c].args
           order_id == NextRowid(orders, sqlite_sequence.orders)
       IN conn' = [conn EXCEPT
             ![c].working =
                 {[Db EXCEPT !.orders = @ \cup {OrderRow(order_id, a[1], a[2],
                                                         a[3], a[4], a[5])},
                             !.sqlite_sequence.orders = order_id]},
             ![c].order = {OrderRow(order_id, a[1], a[2], a[3], a[4], a[5])},
             ![c].pc = "select_activity"]
    /\ UNCHANGED <<orders, activity, sqlite_sequence, log, today, ret>>

(* SELECT id FROM activity WHERE date = ? on the connection of add_order *)
add_select_activity(c) ==
    /\ conn[c].pc = "select_activity" /\ conn[c].op = "add_order"
    /\ \E w \in conn[c].working :
          conn' = [conn EXCEPT
             ![c].existing_record =
                 SelectActivity(w.activity, conn[c].args[5]) # {},
             ![c].pc = "write_activity"]
    /\ UNCHANGED <<orders, activity, sqlite_sequence, log, today, ret>>

(* the UPDATE or the INSERT on activity, as existing_record decides *)
add_write_activity(c) ==
    /\ conn[c].pc = "write_activity"
    /\ LET d == conn[c].args[5]
           amount == conn[c].args[4] * conn[c].args[3]
       IN \E w \in conn[c].working :
            LET act ==
                  IF conn[c].existing_record
                  THEN {IF a.date = d
                        THEN [a EXCEPT !.orders_count = @ + 1,
                                       !.revenue = @ + amount]
                        ELSE a : a \in w.activity}
                  ELSE w.activity \cup
                         {[id |-> NextRowid(w.activity,
                                            w.sqlite_sequence.activity),
                           date |-> d, orders_count |-> 1,
                           revenue |-> amount]}
            IN conn' = [conn EXCEPT
                  ![c].working =
                      {[w EXCEPT !.activity = act,
                                 !.sqlite_sequence.activity =
                                     MaxOf({a.id : a \in act} \cup {@})]},
                  ![c].pc = "commit"]
    /\ UNCHANGED <<orders, activity, sqlite_sequence, log, today, ret>>

(* conn.commit() and the return of add_order *)
add_commit(c) ==
    /\ conn[c].pc = "commit" /\ conn[c].op = "add_order"
    /\ \E w \in conn[c].working :
          /\ orders' = w.orders
          /\ activity' = w.activity
          /\ sqlite_sequence' = w.sqlite_sequence
    /\ \E o \in conn[c].order :
          /\ log' = Append(log, [kind |-> "add", id |-> o.id])
          /\ ret' = [op |-> "add_order", args |-> conn[c].args,
                     value |-> o.id]
    /\ conn' = [conn EXCEPT ![c].working = {}, ![c].pc = "idle"]
    /\ UNCHANGED today

call_delete_order(c, order_id) ==
    /\ conn[c].pc = "idle"
    /\ Len(log) + InFlight < MaxOps
    /\ conn' = [conn EXCEPT ![c] =
                  [NoCall EXCEPT !.pc = "select_order",
                                 !.op = "delete_order",
                                 !.args = <<order_id>>]]
    /\ UNCHANGED <<orders, activity, sqlite_sequence, log, today, ret>>

(* SELECT price, quantity, delivery_date FROM orders WHERE id = ? *)
delete_select_order(c) ==
    /\ conn[c].pc = "select_order"
    /\ conn' = [conn EXCEPT
          ![c].order = SelectOrder(orders, conn[c].args[1]),
          ![c].pc = IF SelectOrder(orders, conn[c].args[1]) # {}
                    THEN "select_activity" ELSE "delete"]
    /\ UNCHANGED <<orders, activity, sqlite_sequence, log, today, ret>>

(* SELECT id FROM activity WHERE date = ? in delete_order *)
delete_select_activity(c) ==
    /\ conn[c].pc = "select_activity" /\ conn[c].op = "delete_order"
    /\ \E o \in conn[c].order :
         LET existing ==
               SelectActivity(activity, order_date_only(o.delivery_date)) # {}
         IN conn' = [conn EXCEPT
               ![c].existing_record = existing,
               ![c].pc = IF existing THEN "update_activity" ELSE "delete"]
    /\ UNCHANGED <<orders, activity, sqlite_sequence, log, today, ret>>

(* UPDATE activity SET orders_count = orders_count - 1, revenue = revenue - ?
   with the price and quantity read by the SELECT on orders *)
delete_update_activity(c) ==
    /\ conn[c].pc = "update_activity"
    /\ LockFree(c)
    /\ \E o \in conn[c].order :
          conn' = [conn EXCEPT
             ![c].working =
                 {[Db EXCEPT !.activity = DecrementActivity(activity, o)]},
             ![c].pc = "delete"]
    /\ UNCHANGED <<orders, activity, sqlite_sequence, log, today, ret>>

(* DELETE FROM orders WHERE id = ? *)
delete_delete(c) ==
    /\ conn[c].pc = "delete"
    /\ LockFree(c)
    /\ \E w \in (IF conn[c].working = {} THEN {Db} ELSE conn[c].working) :
          conn' = [conn EXCEPT
             ![c].working =
                 {[w EXCEPT !.orders =
                      {o \in @ : o.id # conn[c].args[1]}]},
             ![c].pc = "commit"]
    /\ UNCHANGED <<orders, activity, sqlite_sequence, log, today, ret>>

(* conn.commit() and the return of delete_order *)
delete_commit(c) ==
    /\ conn[c].pc = "commit" /\ conn[c].op = "delete_order"
    /\ \E w \in conn[c].working :
          /\ orders' = w.orders
          /\ activity' = w.activity
    /\ log' = Append(log, [kind |-> "delete", id |-> conn[c].args[1]])
    /\ ret' = [op |-> "delete_order", id |-> conn[c].args[1]]
    /\ conn' = [conn EXCEPT ![c].working = {}, ![c].pc = "idle"]
    /\ UNCHANGED <<sqlite_sequence, today>>

NextConc ==
    \E c \in Callers :
       \/ \E cu \in Customers, p \in Products, q \in Quantities,
             pr \in Prices, d \in ConcDates :
                call_add_order(c, cu, p, q, pr, d)
       \/ add_insert_order(c)
       \/ add_select_activity(c)
       \/ add_write_activity(c)
       \/ add_commit(c)
       \/ \E id \in OrderIds : call_delete_order(c, id)
       \/ delete_select_order(c)
       \/ delete_select_activity(c)
       \/ delete_update_activity(c)
       \/ delete_delete(c)
       \/ delete_commit(c)

SpecConc == Init /\ [][NextConc]_vars

----------------------------------------------------------------------------
(* Properties *)

LiveOn(d) == {o \in orders : o.delivery_date = d}
RecordsOf(act, d) == {a \in act : a.date = d}

LastLog(l) == l[Len(l)]
IsAddStep == Len(log') = Len(log) + 1 /\ LastLog(log').kind = "add"
IsDeleteStep == Len(log') = Len(log) + 1 /\ LastLog(log').kind = "delete"

(* the activity table agrees with the live orders *)
Consistent ==
    /\ \A a \in activity :
          /\ a.orders_count = Cardinality(LiveOn(a.date))
          /\ a.revenue = SumAmounts(LiveOn(a.date))
    /\ \A o \in orders : \E a \in activity : a.date = o.delivery_date

(* C1: with plain ISO delivery dates, after any sequence of add_order and
   delete_order calls every ActivityRecord holds the number and the summed
   line totals of the live orders of its date, and every date with a live
   order has an ActivityRecord.  Checked under SpecIso. *)
C1_ActivityMatchesOrders == Consistent

(* an order was added and deleted, leaving a record at zero, while another
   date still holds a live order *)
C1_Witness ==
    /\ \E a \in activity : a.orders_count = 0 /\ a.revenue = 0
    /\ \E a \in activity : a.orders_count = 1 /\ a.revenue # 0
    /\ \E i \in DOMAIN log : log[i].kind = "delete"

(* C2: a step of add_order(c, p, q, price, d) returning n leaves exactly one
   order with id n in every get_all_orders result, with the fields
   (c, p, q, price, d) and the status "processing", and one more live order
   than before, whatever the sign of q. *)
C2_AddOrderStored ==
    [][IsAddStep =>
        /\ ret'.op = "add_order"
        /\ Cardinality(orders') = Cardinality(orders) + 1
        /\ \A rows \in OrderByDesc(orders', "delivery_date") :
              /\ Cardinality({i \in DOMAIN rows : rows[i].id = ret'.value}) = 1
              /\ \A i \in DOMAIN rows :
                    rows[i].id = ret'.value =>
                       /\ rows[i].customer_name = ret'.args[1]
                       /\ rows[i].product = ret'.args[2]
                       /\ rows[i].quantity = ret'.args[3]
                       /\ rows[i].price = ret'.args[4]
                       /\ rows[i].delivery_date = ret'.args[5]
                       /\ rows[i].status = STATUS_PROCESSING]_vars

(* add_order has just stored a second order with a negative quantity *)
C2_Witness ==
    /\ ret.op = "add_order"
    /\ ret.args[3] < 0
    /\ Cardinality(orders) = 2
    /\ \E o \in orders : o.id = ret.value /\ o.quantity = ret.args[3]

(* C3: add_order upserts the activity table: a date without a record gets
   one with orders_count 1 and revenue q*price, a date with a record has 1
   and q*price added to it and every other record is left alone; no state
   holds two records of one date; while no order has been deleted, a date
   with k live orders has exactly one record, with orders_count k and the
   sum of the k line totals as revenue. *)
C3_UpsertStep ==
    IsAddStep =>
        LET d == ret'.args[5]
            amount == ret'.args[3] * ret'.args[4]
        IN /\ \A a \in activity : a.date # d => a \in activity'
           /\ \A b \in activity' : b.date # d => b \in activity
           /\ Cardinality(RecordsOf(activity', d)) = 1
           /\ \A b \in RecordsOf(activity', d) :
                 IF RecordsOf(activity, d) = {}
                 THEN b.orders_count = 1 /\ b.revenue = amount
                 ELSE \A a \in RecordsOf(activity, d) :
                         /\ b.orders_count = a.orders_count + 1
                         /\ b.revenue = a.revenue + amount

C3_OneRecordPerDate ==
    /\ \A a, b \in activity : a.date = b.date => a = b
    /\ (\A i \in DOMAIN log : log[i].kind = "add") =>
          \A d \in DateStrings :
             LiveOn(d) # {} =>
                /\ Cardinality(RecordsOf(activity, d)) = 1
                /\ \A a \in RecordsOf(activity, d) :
                      /\ a.orders_count = Cardinality(LiveOn(d))
                      /\ a.revenue = SumAmounts(LiveOn(d))

C3_ActivityUpsert == []C3_OneRecordPerDate /\ [][C3_UpsertStep]_vars

(* three orders were added on one date and nothing was deleted *)
C3_Witness ==
    /\ \A i \in DOMAIN log : log[i].kind = "add"
    /\ \E a \in activity : a.orders_count = 3 /\ Cardinality(LiveOn(a.date)) = 3
    /\ Cardinality(activity) = 1

(* C4: delete_order(id) of a live order removes exactly that order and
   decrements the ActivityRecord whose date is the order's stored
   delivery_date by 1 in orders_count and by quantity*price in revenue,
   leaving every other record alone. *)
C4_DeleteDecrementsOwnRecord ==
    [][IsDeleteStep =>
        \A o \in orders :
           o.id = LastLog(log').id =>
              /\ orders' = orders \ {o}
              /\ RecordsOf(activity, o.delivery_date) # {}
              /\ activity' =
                    {IF a.date = o.delivery_date
                     THEN [a EXCEPT !.orders_count = @ - 1,
                                    !.revenue = @ - o.quantity * o.price]
                     ELSE a : a \in activity}]_vars

(* C5: delete_order(id) for an id that is not a live order returns normally
   and leaves the orders and every ActivityRecord unchanged; a delete_order
   that directly follows a delete_order of the same id changes nothing. *)
C5_DeleteMissingIsNoop ==
    [][IsDeleteStep =>
        LET id == LastLog(log').id
        IN /\ (\A o \in orders : o.id # id) =>
                 /\ orders' = orders
                 /\ activity' = activity
                 /\ ret'.op = "delete_order"
           /\ (Len(log) > 0 /\ LastLog(log) = [kind |-> "delete", id |-> id]) =>
                 /\ orders' = orders
                 /\ activity' = activity]_vars

(* order 1 was added and then deleted twice in a row; its record stands at
   zero, not below *)
C5_Witness ==
    /\ Len(log) = 3
    /\ log[1].kind = "add"
    /\ log[2] = [kind |-> "delete", id |-> log[1].id]
    /\ log[3] = log[2]
    /\ orders = {}
    /\ \A a \in activity : a.orders_count = 0 /\ a.revenue = 0
    /\ activity # {}

(* C6: every id returned by add_order is positive and greater than every id
   returned by an earlier add_order, whatever was deleted in between. *)
C6_IdsIncrease ==
    /\ \A i \in DOMAIN log : log[i].kind = "add" => log[i].id > 0
    /\ \A i, j \in DOMAIN log :
          (i < j /\ log[i].kind = "add" /\ log[j].kind = "add") =>
             log[i].id < log[j].id
    /\ (ret.op = "add_order") =>
          /\ ret.value = LastLog(log).id
          /\ \A i \in DOMAIN log :
                (i < Len(log) /\ log[i].kind = "add") => log[i].id < ret.value

(* the order holding the largest id was deleted and add_order ran again *)
C6_Witness ==
    /\ Len(log) = 3
    /\ log[1].kind = "add"
    /\ log[2] = [kind |-> "delete", id |-> log[1].id]
    /\ log[3].kind = "add"
    /\ ret.op = "add_order"
    /\ Cardinality(orders) = 1

(* C7: get_all_orders returns each live order exactly once and nothing else,
   latest delivery_date first (non-increasing), and the empty sequence when
   there is no live order. *)
C7_AllOrdersSortedDesc ==
    (ret.op = "get_all_orders") =>
        LET rows == ret.value
        IN /\ Len(rows) = Cardinality(orders)
           /\ {rows[i] : i \in DOMAIN rows} = orders
           /\ \A i, j \in DOMAIN rows :
                 i < j => DateLeq(rows[j].delivery_date, rows[i].delivery_date)
           /\ (orders = {} => rows = <<>>)

(* three orders of three different dates, entered out of order, were listed *)
C7_Witness ==
    /\ ret.op = "get_all_orders"
    /\ Len(ret.value) = 3
    /\ ret.value[1].delivery_date.ymd > ret.value[2].delivery_date.ymd
    /\ ret.value[2].delivery_date.ymd > ret.value[3].delivery_date.ymd
    /\ ret.value[1].id > ret.value[3].id
    /\ ret.value[3].id < ret.value[2].id

(* C8: get_general_statistics returns total_orders = the number of live
   orders, total_revenue = the sum of quantity*price over them (0 if none)
   and average_order_value = total_revenue / total_orders when there is an
   order and 0 otherwise. *)
C8_GeneralStatistics ==
    (ret.op = "get_general_statistics") =>
        LET st == ret.value
        IN /\ st.total_orders = Cardinality(orders)
           /\ st.total_revenue = SumAmounts(orders)
           /\ IF st.total_orders > 0
              THEN /\ st.average_order_value.den > 0
                   /\ st.average_order_value.num * st.total_orders
                         = st.total_revenue * st.average_order_value.den
              ELSE /\ st.total_revenue = 0
                   /\ st.average_order_value = [num |-> 0, den |-> 1]

(* two orders whose average is not a whole number *)
C8_Witness ==
    /\ ret.op = "get_general_statistics"
    /\ ret.value.total_orders = 2
    /\ ret.value.total_revenue = 15
    /\ ret.value.average_order_value = [num |-> 15, den |-> 2]

StrictlyAscending(stats) ==
    \A i, j \in DOMAIN stats :
       i < j => DateLeq(stats[i].date, stats[j].date)
                /\ stats[i].date # stats[j].date

WindowStart(days) == [ymd |-> today - days, hm |-> ""]
TodayText == [ymd |-> today, hm |-> ""]

(* C9 as stated: get_revenue_stats(days) returns only entries dated within
   [today-days, today], in ascending date order. *)
C9_WithinWindow ==
    (ret.op = "get_revenue_stats") =>
        /\ StrictlyAscending(ret.value)
        /\ \A i \in DOMAIN ret.value :
              /\ DateLeq(WindowStart(ret.days), ret.value[i].date)
              /\ DateLeq(ret.value[i].date, TodayText)

(* C9 amended: get_revenue_stats(days) returns only entries dated today-days
   or later, in ascending date order; there is no upper limit, so dates
   after today are returned too. *)
C9_NotBeforeWindow ==
    (ret.op = "get_revenue_stats") =>
        /\ StrictlyAscending(ret.value)
        /\ \A i \in DOMAIN ret.value :
              DateLeq(WindowStart(ret.days), ret.value[i].date)

(* the statistics left out a record dated before the window and returned
   one dated after today *)
C9_Witness ==
    /\ ret.op = "get_revenue_stats"
    /\ Len(ret.value) = 2
    /\ \E i \in DOMAIN ret.value : ret.value[i].date.ymd > today
    /\ \E a \in activity : ~DateLeq(WindowStart(ret.days), a.date)

NoActivityInWindow(days) ==
    \A a \in activity : ~DateLeq(WindowStart(days), a.date)

Entries(stats) == {stats[i] : i \in DOMAIN stats}

(* C10: when no ActivityRecord lies in the window, get_revenue_stats returns
   the (date, revenue) entries obtained by grouping the live orders of the
   window by delivery_date and summing quantity*price, ascending by date;
   and whenever the activity table agrees with the orders, the fallback
   query gives, for each date it returns, the entry the primary query gives
   for that date. *)
C10_FallbackGroupsOrders ==
    /\ (ret.op = "get_revenue_stats" /\ NoActivityInWindow(ret.days)) =>
          /\ StrictlyAscending(ret.value)
          /\ Entries(ret.value) =
                {[date |-> d, revenue |-> SumAmounts(LiveOn(d))] :
                   d \in {o.delivery_date :
                            o \in {x \in orders :
                                     DateLeq(WindowStart(ret.days),
                                             x.delivery_date)}}}
    /\ Consistent =>
          \A days \in WindowDays :
             \A f \in OrderStats(days) : \A p \in ActivityStats(days) :
                Entries(f) = {e \in Entries(p) : LiveOn(e.date) # {}}

(* the fallback was taken on a store whose orders and records all lie
   before the window, and the tables agree *)
C10_Witness ==
    /\ ret.op = "get_revenue_stats"
    /\ NoActivityInWindow(ret.days)
    /\ activity # {}
    /\ orders # {}
    /\ Consistent
    /\ ret.value = <<>>

(* the activity table after the delta of the new order o was applied to it *)
HasDeltaOf(o, before, after) ==
    /\ \A a \in before : a.date # o.delivery_date => a \in after
    /\ \A b \in after : b.date # o.delivery_date => b \in before
    /\ \E b \in after :
          /\ b.date = o.delivery_date
          /\ \A c \in after : c.date = b.date => c = b
          /\ IF RecordsOf(before, o.delivery_date) = {}
             THEN b.orders_count = 1 /\ b.revenue = o.quantity * o.price
             ELSE \A a \in RecordsOf(before, o.delivery_date) :
                     /\ b.orders_count = a.orders_count + 1
                     /\ b.revenue = a.revenue + o.quantity * o.price

(* C11: add_order is atomic and fails loudly: when a statement of add_order
   (the order insert, the activity lookup, the activity update/insert or
   the commit) fails, the call raises DatabaseError and neither a new order
   nor a change of the activity table is visible afterwards; an add_order
   that returns stores the order together with its activity delta; no step
   stores a new order without its delta or changes the activity table for
   an add_order that stored no order. *)
C11_AddOrderAtomic ==
    [][/\ (ret'.op = "add_order" /\ Failed(ret')) =>
             /\ Raised(ret') /\ ret'.raised = "DatabaseError"
             /\ orders' = orders
             /\ activity' = activity
       /\ \A o \in orders' \ orders :
             /\ ret'.op = "add_order" /\ ~Raised(ret')
             /\ orders' = orders \cup {o}
             /\ HasDeltaOf(o, activity, activity')
       /\ (ret'.op = "add_order" /\ orders' = orders) =>
             activity' = activity]_vars

(* add_order failed at its commit on a store that holds an order; the table
   and the record are those of that one order *)
C11_Witness ==
    /\ ret.op = "add_order"
    /\ Raised(ret)
    /\ ret.failed = "commit"
    /\ Cardinality(orders) = 1
    /\ \A a \in activity : a.orders_count = 1
    /\ Cardinality(activity) = 1

TargetOf(r) == {o \in orders : o.id = r.id}

IsDecrementOf(o, before, after) ==
    \E a \in before : \E b \in after :
       /\ a.date = o.delivery_date
       /\ b.date = a.date
       /\ b.orders_count = a.orders_count - 1
       /\ b.revenue = a.revenue - o.quantity * o.price

(* C12 as stated, for orders whose delivery date is a plain ISO date:
   delete_order of a live order either persists both the activity decrement
   and the removal of the order, or neither, also when a statement fails. *)
C12_DeleteAtomic ==
    [][ret'.op = "delete_order" =>
          \A o \in TargetOf(ret') :
             o.delivery_date.hm = "" =>
                \/ o \notin orders' /\ IsDecrementOf(o, activity, activity')
                \/ orders' = orders /\ activity' = activity]_vars

(* C12 amended: a delete_order of a live order that raises DatabaseError
   (failure of the order lookup, the DELETE or the commit) persists neither
   the decrement nor the removal; a delete_order that returns has removed
   exactly that order; the activity table is never changed while the order
   stays live.  The order can be removed with the activity table left as it
   was: a failure of the activity lookup or update is only logged. *)
C12_DeleteAtomicWhenRaised ==
    [][ret'.op = "delete_order" =>
          \A o \in TargetOf(ret') :
             /\ Raised(ret') => orders' = orders /\ activity' = activity
             /\ ~Raised(ret') => orders' = orders \ {o}
             /\ activity' # activity => o \notin orders']_vars

(* the activity update failed in delete_order: the only order is gone and
   its record still counts it *)
C12_Witness ==
    /\ ret.op = "delete_order"
    /\ Failed(ret) /\ ret.failed = "update_activity"
    /\ ~Raised(ret)
    /\ orders = {}
    /\ Cardinality(activity) = 1
    /\ \A a \in activity : a.orders_count = 1 /\ a.date.hm = ""

StatisticsOps == {"get_revenue_stats", "get_general_statistics"}

(* C13: on a storage failure get_revenue_stats returns the empty list and
   get_general_statistics returns total_orders 0, total_revenue 0 and
   average_order_value 0; neither raises and neither changes a stored order
   or ActivityRecord. *)
C13_StatisticsDefaults ==
    (ret.op \in StatisticsOps /\ Failed(ret)) =>
        /\ ~Raised(ret)
        /\ Returned(ret)
        /\ ret.op = "get_revenue_stats" => ret.value = <<>>
        /\ ret.op = "get_general_statistics" =>
              /\ ret.value.total_orders = 0
              /\ ret.value.total_revenue = 0
              /\ ret.value.average_order_value = [num |-> 0, den |-> 1]

C13_StatisticsFailQuietly ==
    /\ []C13_StatisticsDefaults
    /\ [][(ret'.op \in StatisticsOps /\ Failed(ret')) =>
             /\ orders' = orders
             /\ activity' = activity
             /\ sqlite_sequence' = sqlite_sequence]_vars

(* get_revenue_stats failed on a store whose window holds a record *)
C13_Witness ==
    /\ ret.op = "get_revenue_stats"
    /\ Failed(ret)
    /\ ret.value = <<>>
    /\ \E a \in activity : DateLeq(WindowStart(ret.days), a.date)
    /\ orders # {}

(* C14 as stated: a storage failure during get_all_orders makes the call
   return the empty sequence, and no error reaches the caller. *)
C14_GetAllOrdersFailsQuietly ==
    (ret.op = "get_all_orders" /\ Failed(ret)) =>
        /\ ~Raised(ret)
        /\ Returned(ret)
        /\ ret.value = <<>>

(* C14 amended: a storage failure during get_all_orders makes the call
   raise DatabaseError to the caller; it returns no sequence. *)
C14_GetAllOrdersFailsLoudly ==
    (ret.op = "get_all_orders" /\ Failed(ret)) =>
        /\ Raised(ret)
        /\ ret.raised = "DatabaseError"
        /\ ~Returned(ret)

(* get_all_orders failed on a store that holds orders *)
C14_Witness ==
    /\ ret.op = "get_all_orders"
    /\ Failed(ret)
    /\ Cardinality(orders) = 2

(* C15: in delete_order of a live order a failure of the activity lookup or
   of the activity update is only logged: the order is removed and the
   removal committed, the activity table stays as it was, and delete_order
   returns without raising. *)
C15_DecrementFailureDoesNotBlock ==
    [][(/\ ret'.op = "delete_order"
        /\ Failed(ret')
        /\ ret'.failed \in {"select_activity", "update_activity"}) =>
          /\ TargetOf(ret') # {}
          /\ ~Raised(ret')
          /\ orders' = orders \ TargetOf(ret')
          /\ activity' = activity
          /\ log' = log \o <<[kind |-> "warning", op |-> "delete_order"],
                             [kind |-> "delete", id |-> ret'.id]>>]_vars

(* the activity lookup failed in delete_order of one of two orders: the
   order is gone, the other one lives and the records count both *)
C15_Witness ==
    /\ ret.op = "delete_order"
    /\ Failed(ret) /\ ret.failed = "select_activity"
    /\ Cardinality(orders) = 1
    /\ \A o \in orders : o.id # ret.id
    /\ Len(log) = 4
    /\ log[3].kind = "warning"
    /\ log[4] = [kind |-> "delete", id |-> ret.id]

(* C16: an ActivityRecord is never removed: a date that has a record keeps
   one in every later state, also after all orders of the date are deleted
   and its counters are zero. *)
C16_RecordsNeverRemoved ==
    [][\A a \in activity : \E b \in activity' : b.date = a.date]_vars

(* the only order of a date was deleted and a read followed: the record is
   still there, at zero *)
C16_Witness ==
    /\ ret.op = "get_revenue_stats"
    /\ orders = {}
    /\ \E a \in activity : a.orders_count = 0 /\ a.revenue = 0
    /\ \E i \in DOMAIN ret.value : ret.value[i].revenue = 0

(* the two callers have each returned from a delete_order call whose SELECT
   on orders returned the order o *)
BothDeleted(o) ==
    \A c \in Callers :
       /\ conn[c].pc = "idle"
       /\ conn[c].op = "delete_order"
       /\ conn[c].order = {o}

(* C17: the mutations give no isolation between concurrent callers: when
   the statements of two delete_order calls on the same id interleave so
   that both read the order before either commits, both apply the relative
   UPDATE, and the ActivityRecord of the date ends one order and one line
   total below the live orders of its date.  Checked under SpecConc. *)
C17_ConcurrentDeleteDecrementsTwice ==
    \A o \in UNION {conn[c].order : c \in Callers} :
       BothDeleted(o) =>
          \E a \in activity :
             /\ a.date = o.delivery_date
             /\ a.orders_count = Cardinality(LiveOn(a.date)) - 1
             /\ a.revenue = SumAmounts(LiveOn(a.date)) - o.quantity * o.price

(* two delete_order calls on the only order have both returned: no order
   is left and the record of its date counts -1 *)
C17_Witness ==
    /\ \E o \in UNION {conn[c].order : c \in Callers} : BothDeleted(o)
    /\ orders = {}
    /\ \E a \in activity : a.orders_count = 0 - 1
    /\ ~Consistent

(* add_order calls alone keep the tables in agreement, however their
   statements interleave: the INSERT on orders is the first statement and
   holds the write lock until the commit *)
AddOrderCallsSerialise ==
    /\ Cardinality({c \in Callers : conn[c].working # {}}) <= 1
    /\ (\A i \in DOMAIN log : log[i].kind = "add") => Consistent

(* C18 as stated: after every order of a date in the window has been
   deleted, get_revenue_stats still returns an entry for that date, with
   revenue 0, because the ActivityRecord of the date remains. *)
C18_ResidualEntryAtZero ==
    (ret.op = "get_revenue_stats" /\ Returned(ret)) =>
        \A a \in activity :
           (DateLeq(WindowStart(ret.days), a.date) /\ LiveOn(a.date) = {}) =>
               [date |-> a.date, revenue |-> 0] \in Entries(ret.value)

(* C19: with plain ISO delivery dates the fallback of get_revenue_stats
   returns nothing: when no ActivityRecord lies in the window, no live
   order lies in it either, the query on orders yields the empty list and
   so does get_revenue_stats.  Checked under SpecIso. *)
C19_FallbackReturnsNothing ==
    /\ \A days \in WindowDays :
          NoActivityInWindow(days) =>
             /\ \A o \in orders :
                   ~DateLeq(WindowStart(days), o.delivery_date)
             /\ OrderStats(days) = {<<>>}
    /\ (ret.op = "get_revenue_stats" /\ NoActivityInWindow(ret.days)) =>
          ret.value = <<>>

(* the fallback ran on a store holding two orders, both dated before the
   window *)
C19_Witness ==
    /\ ret.op = "get_revenue_stats"
    /\ NoActivityInWindow(ret.days)
    /\ Cardinality(orders) = 2
    /\ ret.value = <<>>

====
